---- MODULE Spec2Model ----
(***************************************************************************)
(* Run data capture and persistence of the ParseHub monitoring dashboard.  *)
(*                                                                         *)
(* Spec        : GET /api/analytics with fetchAndStoreProjectData, the     *)
(*               run-data proxy, the upstream platform and the store.      *)
(* SpecTrigger : the trigger endpoints (single project, run-all) with      *)
(*               active_runs.json and the upstream platform.               *)
(* SpecStore   : inserts of projects and runs into the Durable Store.      *)
(* SpecCSV     : the Record Normalizer for tabular text (parseCSV) and the *)
(*               CSV writer of the export route (convertJsonToCsv).        *)
(* SpecJSON    : the Record Normalizer for nested objects, in the three    *)
(*               places that extract a record list from one.               *)
(* SpecPoller  : the Run Poller, the status writes to the Durable Store    *)
(*               and the cancellation of a run.                            *)
(* SpecScan    : the Recovery Scanner.                                     *)
(* SpecBadge   : the status badges of the project list of the dashboard.   *)
(* SpecMigrate : migration 001_pg_unique_constraints.sql on the catalog.   *)
(* SpecProjects: GET /api/projects, the proxy to the backend.              *)
(***************************************************************************)
EXTENDS Integers, Sequences, FiniteSets, TLC

VARIABLES
    csvPc,        \* "export" | "text" | "parsed": position of the normalizer run
    exportData,   \* the array handed to convertJsonToCsv (a sequence of objects)
    csvText,      \* the tabular-text payload
    csvRecords,   \* the records returned by parseCSV
    upRuns,       \* upstream platform: its runs, indexed by run token
    hPc,          \* GET /api/analytics: "idle" | "step2" | "done"
    hDb,          \* GET /api/analytics: the result of the lookup of Step 1
    hResp,        \* GET /api/analytics: the response sent to the caller
    wPc,          \* fetchAndStoreProjectData: "off" | "project" | "csv" | "json"
    wMode,        \* who waits for it: "awaited" | "background" | "abandoned"
    wToken,       \* its project token
    wRun,         \* the run token it fetches data for (0: none yet)
    wReqs,        \* the upstream requests of this invocation, with outcomes
    wResult,      \* what the invocation resolved to
    rdReq,        \* GET /api/projects/[token]/[runToken]: its upstream request
    rdResp,       \* GET /api/projects/[token]/[runToken]: the response sent
    projects,     \* Durable Store: the projects table
    runs,         \* Durable Store: the runs table
    recordRows,   \* Durable Store: number of record rows stored per run token
    projLatest,   \* history: the values of the latest insert per project token
    runLatest,    \* history: the values of the latest insert per run token
    activeRuns,   \* the file active_runs.json
    trResp,       \* POST run (single project): the response sent
    raPc,         \* POST run-all: "idle" | "loop"
    raQueue,      \* POST run-all: the projects still to trigger
    raResults,    \* POST run-all: the results so far
    raResp,       \* POST run-all: the response sent
    jsPc,         \* nested-object normalizer: "input" | "done"
    jsData,       \* the nested object handed to the three extractions
    jsAnalytics,  \* records of the JSON fallback of the analytics route
    jsFile,       \* records of getProjectData
    jsExport,     \* dataToConvert of the export route, as a record list
    plPc,         \* Run Poller: "idle" | "poll" | "fetch" | "stopped"
    plRun,        \* Run Poller: the run it owns (0: none)
    plTick,       \* Run Poller: ticks so far, the sequence number of the last
    plLog,        \* history: what the loop did, in order
    plWrites,     \* status observations on their way to the store
    plApplied,    \* history: the observations that arrived at the store,
                  \* in the order of their arrival
    runSeq,       \* Durable Store: sequence number of the status per run
    cnResp,       \* POST /api/runs/[run_token]/cancel: the response sent
    cnRun,        \* history: the run whose cancellation the backend took on
    scPc,         \* Recovery Scanner: "idle" | "scan" | "done" | "failed"
    scHist,       \* the historical runs of the project, newest first
    scOutcome,    \* Recovery Scanner: the outcome per visited run
    uiStatus,     \* dashboard: last_run status per project ("" for no run)
    uiBadge,      \* dashboard: the badge rendered per project
    pgConstraints,\* PostgreSQL catalog: the rows of pg_constraint
    pgColumns,    \* PostgreSQL catalog: the rows of information_schema.columns
    mgPc,         \* migration 001: 0 when not running, else the next DO block
    mgRuns,       \* migration 001: number of completed executions
    mgLog,        \* history: what each DO block of each execution did
    mgFirst,      \* history: the schema as the first execution left it
    pjPc,         \* GET /api/projects: "idle" | "done"
    pjCall,       \* GET /api/projects: what the call of the backend ended with
    pjResp        \* GET /api/projects: what the handler returned

csvvars == <<csvPc, exportData, csvText, csvRecords>>
upvars == <<upRuns>>
anvars == <<hPc, hDb, hResp, wPc, wMode, wToken, wRun, wReqs, wResult, rdReq,
           rdResp>>
dbvars == <<projects, runs, recordRows, projLatest, runLatest>>
trvars == <<activeRuns, trResp, raPc, raQueue, raResults, raResp>>
jsvars == <<jsPc, jsData, jsAnalytics, jsFile, jsExport>>
pollvars == <<plPc, plRun, plTick, plLog, plWrites, plApplied, runSeq, cnResp,
              cnRun>>
scanvars == <<scPc, scHist, scOutcome>>
uivars == <<uiStatus, uiBadge>>
restvars == <<jsvars, pollvars, scanvars, uivars>>
mgvars == <<pgConstraints, pgColumns, mgPc, mgRuns, mgLog, mgFirst>>
pjvars == <<pjPc, pjCall, pjResp>>
latevars == <<mgvars, pjvars>>
vars == <<csvvars, upvars, anvars, dbvars, trvars, restvars, latevars>>

(***************************************************************************)
(* Strings are sequences of one-character strings.                         *)
(***************************************************************************)
Comma == ","
Quote == "\""
NL == "\n"
Space == " "
Letter == "a"
Letter2 == "b"

\* the characters String.prototype.trim removes, within the model's alphabet
Whitespace == {Space, NL}

Range(s) == {s[i] : i \in 1..Len(s)}

RECURSIVE trimStart(_)
trimStart(s) ==
    IF s # <<>> /\ Head(s) \in Whitespace THEN trimStart(Tail(s)) ELSE s

RECURSIVE trimEnd(_)
trimEnd(s) ==
    IF s # <<>> /\ s[Len(s)] \in Whitespace
    THEN trimEnd(SubSeq(s, 1, Len(s) - 1))
    ELSE s

trim(s) == trimEnd(trimStart(s))

\* String.prototype.split(sep) for a one-character separator
RECURSIVE split(_, _)
split(s, sep) ==
    IF \E i \in 1..Len(s) : s[i] = sep
    THEN LET i == CHOOSE k \in 1..Len(s) :
                      s[k] = sep /\ \A j \in 1..(k - 1) : s[j] # sep
         IN  <<SubSeq(s, 1, i - 1)>> \o split(SubSeq(s, i + 1, Len(s)), sep)
    ELSE <<s>>

\* Array.prototype.join(sep)
RECURSIVE join(_, _)
join(parts, sep) ==
    IF parts = <<>> THEN <<>>
    ELSE IF Len(parts) = 1 THEN parts[1]
    ELSE parts[1] \o <<sep>> \o join(Tail(parts), sep)

\* .replace(/^"|"$/g, ''): one quote off the start, one quote off the end
stripQuotes(s) ==
    LET s1 == IF s # <<>> /\ Head(s) = Quote THEN Tail(s) ELSE s
    IN  IF s1 # <<>> /\ s1[Len(s1)] = Quote
        THEN SubSeq(s1, 1, Len(s1) - 1)
        ELSE s1

\* a finished field: current.trim().replace(/^"|"$/g, '')
finishField(current) == stripQuotes(trim(current))

\* the character loop of parseCSV over one line
RECURSIVE scanRow(_, _, _, _, _)
scanRow(line, j, values, current, inQuotes) ==
    IF j > Len(line) THEN Append(values, finishField(current))
    ELSE LET char == line[j] IN
         IF char = Quote
         THEN scanRow(line, j + 1, values, current, ~inQuotes)
         ELSE IF char = Comma /\ ~inQuotes
         THEN scanRow(line, j + 1, Append(values, finishField(current)),
                      <<>>, inQuotes)
         ELSE scanRow(line, j + 1, values, Append(current, char), inQuotes)

rowValues(line) == scanRow(line, 1, <<>>, <<>>, FALSE)

\* a variant that keeps every line, blank ones included
skipLine_never(line) == FALSE

\* if (!lines[i].trim()) continue
skipLine(line) == trim(line) = <<>>

\* a variant that leaves the fields of a short row undefined
valueAt_noFill(values, index) ==
    IF index <= Len(values) THEN values[index] ELSE <<"?">>

\* values[index] || ''
valueAt(values, index) ==
    IF index <= Len(values) THEN values[index] ELSE <<>>

\* headers.forEach((header, index) => record[header] = values[index] || '')
makeRecord(headers, values) ==
    [h \in Range(headers) |->
        LET last == CHOOSE i \in 1..Len(headers) :
                        headers[i] = h
                        /\ \A k \in (i + 1)..Len(headers) : headers[k] # h
        IN  valueAt(values, last)]

parseHeaders(line) ==
    LET raw == split(line, Comma)
    IN  [i \in 1..Len(raw) |-> stripQuotes(trim(raw[i]))]

parseCSV(text) ==
    LET lines == split(trim(text), NL)
        headers == parseHeaders(lines[1])
        rows == SelectSeq(Tail(lines), LAMBDA l : ~skipLine(l))
    IN  [i \in 1..Len(rows) |-> makeRecord(headers, rowValues(rows[i]))]

(***************************************************************************)
(* convertJsonToCsv: objects are sequences of <<key, value>> pairs, in     *)
(* insertion order.                                                        *)
(***************************************************************************)
objectKeys(item) == [i \in 1..Len(item) |-> item[i][1]]

hasKey(item, key) == \E i \in 1..Len(item) : item[i][1] = key

\* item[header] ?? ''
getField(item, key) ==
    IF hasKey(item, key)
    THEN item[CHOOSE i \in 1..Len(item) : item[i][1] = key][2]
    ELSE <<>>

\* the insertion-ordered Set of all keys of all items
RECURSIVE addKeys(_, _)
addKeys(keys, ks) ==
    IF ks = <<>> THEN keys
    ELSE addKeys(IF Head(ks) \in Range(keys) THEN keys
                 ELSE Append(keys, Head(ks)), Tail(ks))

RECURSIVE allKeys(_, _)
allKeys(keys, data) ==
    IF data = <<>> THEN keys
    ELSE allKeys(addKeys(keys, objectKeys(Head(data))), Tail(data))

\* String(value).replace(/"/g, '""')
RECURSIVE doubleQuotes(_)
doubleQuotes(s) ==
    IF s = <<>> THEN <<>>
    ELSE (IF Head(s) = Quote THEN <<Quote, Quote>> ELSE <<Head(s)>>)
         \o doubleQuotes(Tail(s))

escapeField(value) ==
    LET stringValue == doubleQuotes(value)
    IN  IF Comma \in Range(stringValue) \/ Quote \in Range(stringValue)
        THEN <<Quote>> \o stringValue \o <<Quote>>
        ELSE stringValue

convertJsonToCsv(data) ==
    IF data = <<>> THEN <<>>
    ELSE LET headers == allKeys(<<>>, data)
             rows == [r \in 1..Len(data) |->
                        join([c \in 1..Len(headers) |->
                                escapeField(getField(data[r], headers[c]))],
                             Comma)]
         IN  join(<<join(headers, Comma)>> \o rows, NL)

(***************************************************************************)
(* The upstream platform (an external service): its runs and their output. *)
(***************************************************************************)
MaxRuns == 1

Projects == {"p1", "p2"}
NoToken == "none"
RunTokens == 1..MaxRuns

\* the output of a complete run: the same data in both formats
\* (payload 0: no data at the address, i.e. not ready or purged)
PayloadCsv ==
    << <<"a">>,
       <<"a", ",", "b", "\n", "a", ",", "b">> >>
\* a nested object: <<key, value>> pairs, a value being an array of a given
\* length or a scalar
PayloadJson ==
    << <<>>,
       << <<"offset", [kind |-> "scalar", len |-> 0]>>,
          <<"product", [kind |-> "array", len |-> 1]>> >> >>
NumPayloads == Len(PayloadCsv)

InFlight == {"queued", "running"}

LastRunOf(p) ==
    IF \E r \in 1..Len(upRuns) : upRuns[r].project = p
    THEN CHOOSE r \in 1..Len(upRuns) :
            /\ upRuns[r].project = p
            /\ \A k \in (r + 1)..Len(upRuns) : upRuns[k].project # p
    ELSE 0

DataAvailable(r) == r \in 1..Len(upRuns) /\ upRuns[r].payload > 0

\* addresses on the platform
\*   /projects/{token}                    the project with its last_run
\*   /runs/{run_token}/data               the output of a run
\*   /projects/{token}/runs/{run}/data    (see RunDataGET)
NoUrl == [project |-> NoToken, run |-> 0, leaf |-> ""]
projectUrl(token) == [project |-> token, run |-> 0, leaf |-> ""]
runDataUrl(runToken) == [project |-> NoToken, run |-> runToken, leaf |-> "data"]
projectRunDataUrl(token, runToken) ==
    [project |-> token, run |-> runToken, leaf |-> "data"]

InitUp == upRuns = <<>>

\* the platform works on a run: queued -> running -> complete | error
UpstreamAdvance(r) ==
    /\ r \in 1..Len(upRuns)
    /\ UNCHANGED latevars
    /\ UNCHANGED restvars
    /\ UNCHANGED <<csvvars, anvars, dbvars, trvars>>
    /\ \/ /\ upRuns[r].status = "queued"
          /\ upRuns' = [upRuns EXCEPT ![r].status = "running"]
       \/ /\ upRuns[r].status = "running"
          /\ \E pl \in 1..NumPayloads :
                upRuns' = [upRuns EXCEPT ![r].status = "complete",
                                         ![r].payload = pl]
       \/ /\ upRuns[r].status = "running"
          /\ upRuns' = [upRuns EXCEPT ![r].status = "error"]

\* the platform purges the output of a complete run
UpstreamPurge(r) ==
    /\ r \in 1..Len(upRuns)
    /\ UNCHANGED latevars
    /\ UNCHANGED restvars
    /\ UNCHANGED <<csvvars, anvars, dbvars, trvars>>
    /\ upRuns[r].payload > 0
    /\ upRuns' = [upRuns EXCEPT ![r].payload = 0]

\* POST /projects/{token}/run on the platform: a new run, whatever else runs
UpstreamNewRun(p) ==
    Append(upRuns, [project |-> p, status |-> "queued", payload |-> 0])

(***************************************************************************)
(* Durable Store.  The tables are sequences of rows, so that a duplicate   *)
(* row is expressible.                                                     *)
(***************************************************************************)
\* a constraint on the wrong column
projects_token_unique_onTitle(table, row) ==
    {i \in 1..Len(table) : table[i].title = row.title}

\* UNIQUE (token) on projects: the rows a new row conflicts with
projects_token_unique(table, row) ==
    {i \in 1..Len(table) : table[i].token = row.token}

\* UNIQUE (run_token) on runs: the rows a new row conflicts with
runs_run_token_unique(table, row) ==
    {i \in 1..Len(table) : table[i].run_token = row.run_token}

\* INSERT INTO projects ... ON CONFLICT (token) DO UPDATE
upsertProject(table, row) ==
    LET conflicts == projects_token_unique(table, row)
    IN  IF conflicts = {} THEN Append(table, row)
        ELSE [i \in 1..Len(table) |->
                IF i \in conflicts THEN [table[i] EXCEPT !.title = row.title]
                ELSE table[i]]

\* INSERT INTO runs ... ON CONFLICT (run_token) DO UPDATE of the status
upsertRun(table, row) ==
    LET conflicts == runs_run_token_unique(table, row)
    IN  IF conflicts = {} THEN Append(table, row)
        ELSE [i \in 1..Len(table) |->
                IF i \in conflicts THEN [table[i] EXCEPT !.status = row.status]
                ELSE table[i]]

RunRows(r) == {i \in 1..Len(runs) : runs[i].run_token = r}
Captured(r) == \E i \in RunRows(r) : runs[i].captured

\* the record rows and the run row as a commit that loses the captured flag
commitCapture_rowsOnly(table, row) ==
    LET t1 == upsertRun(table, row)
    IN  [i \in 1..Len(t1) |->
            IF t1[i].run_token = row.run_token
            THEN [t1[i] EXCEPT !.records_count = 0, !.captured = FALSE]
            ELSE t1[i]]

\* store_analytics_data, the run row of the committed transaction: the run is
\* captured and its records-count is the number of rows written with it
commitCapture(table, row) ==
    LET t1 == upsertRun(table, row)
    IN  [i \in 1..Len(t1) |->
            IF t1[i].run_token = row.run_token
            THEN [t1[i] EXCEPT !.records_count = row.records_count,
                               !.captured = TRUE]
            ELSE t1[i]]

RECURSIVE SumRows(_)
SumRows(S) ==
    IF S = {} THEN 0
    ELSE LET r == CHOOSE x \in S : TRUE
         IN  recordRows[r] + SumRows(S \ {r})

\* get_analytics_data: nothing for a project without a captured run, else
\* the stored records of the project's runs
getAnalyticsData(token) ==
    LET mine == {r \in RunTokens :
                    \E i \in RunRows(r) : runs[i].project_token = token}
    IN  IF \E r \in mine : Captured(r)
        THEN [found |-> TRUE, n |-> SumRows(mine)]
        ELSE [found |-> FALSE, n |-> 0]

Titles == {"t1", "t2"}
Statuses == {"queued", "running", "complete", "error", "cancelled"}

\* history of the inserts of one token: the mutable value of the latest
\* insert, and whether there was one insert or more
NeverInserted == [value |-> "none", times |-> 0]
Inserted(before, value) ==
    [value |-> value, times |-> IF before.times = 0 THEN 1 ELSE 2]

InitDb ==
    /\ projects = <<>>
    /\ runs = <<>>
    /\ recordRows = [r \in RunTokens |-> 0]
    /\ projLatest = [p \in Projects |-> NeverInserted]
    /\ runLatest = [r \in RunTokens |-> NeverInserted]

\* the project list is synchronised into the store
SyncProject(token, title) ==
    /\ projects' = upsertProject(projects, [token |-> token, title |-> title])
    /\ projLatest' = [projLatest EXCEPT ![token] = Inserted(@, title)]
    /\ UNCHANGED <<runs, recordRows, runLatest>>
    /\ UNCHANGED latevars
    /\ UNCHANGED restvars
    /\ UNCHANGED <<csvvars, upvars, anvars, trvars>>

\* a run and its status are recorded in the store
RecordRun(runToken, projectToken, status) ==
    /\ runs' = upsertRun(runs,
                    [run_token |-> runToken, project_token |-> projectToken,
                     status |-> status, records_count |-> 0,
                     captured |-> FALSE])
    /\ runLatest' = [runLatest EXCEPT ![runToken] = Inserted(@, status)]
    /\ UNCHANGED <<projects, recordRows, projLatest>>
    /\ UNCHANGED latevars
    /\ UNCHANGED restvars
    /\ UNCHANGED <<csvvars, upvars, anvars, trvars>>

(***************************************************************************)
(* GET /api/analytics and fetchAndStoreProjectData.                        *)
(*                                                                         *)
(* Between two awaits on the network the code runs without interruption:   *)
(* parsing, storeAnalyticsDataToDB (execSync) and the continuation of the  *)
(* handler that awaits the result are one step.                            *)
(***************************************************************************)
NoResp == [kind |-> "none", stored |-> "na", n |-> 0]
NoDataResp == [kind |-> "no_data", stored |-> "na", n |-> 0]
NullResult == [kind |-> "null", stored |-> "na", n |-> 0]

Failures == {"404", "error", "rejected"}

request(url, format) == [url |-> url, format |-> format, outcome |-> "pending"]

\* the last request of the invocation got its answer
Answered(reqs, outcome) == [reqs EXCEPT ![Len(reqs)].outcome = outcome]

\* JSON fallback: the elements of the first array-valued top-level field,
\* 'offset' and 'brand' aside (their number)
jsonDataKeys(runData) ==
    SelectSeq(runData, LAMBDA kv : kv[1] \notin {"offset", "brand"})

jsonRecords(runData) ==
    LET ks == jsonDataKeys(runData)
        arrays == {i \in 1..Len(ks) : ks[i][2].kind = "array"}
    IN  IF arrays = {} THEN 0
        ELSE ks[CHOOSE i \in arrays : \A k \in arrays : i <= k][2].len

\* a fetcher that reports a 404 of the primary format at once
csvFallback_not404(outcome) == IF outcome = "404" THEN "giveup" ELSE "json"

\* catch (csvError): whatever failed in the CSV branch, the JSON format is
\* requested
csvFallback(outcome) == "json"

\* a fetcher that turns a failed fallback into an empty result
fetchFailed_empty(outcome) == [kind |-> "data", stored |-> "na", n |-> 0]

\* the outer catch of fetchProjectDataFromParseHub: return null
fetchFailed(outcome) == NullResult

\* storeAnalyticsDataToDB: the transaction commits as a whole (ok) or not
\* at all
storeAnalyticsDataToDB(projectToken, runToken, n, ok) ==
    IF ok
    THEN LET row == [run_token |-> runToken, project_token |-> projectToken,
                     status |-> "complete", records_count |-> n,
                     captured |-> FALSE]
         IN  /\ runs' = commitCapture(runs, row)
             /\ recordRows' = [recordRows EXCEPT ![runToken] = n]
             /\ runLatest' = [runLatest EXCEPT
                                ![runToken] = Inserted(@, "complete")]
             /\ UNCHANGED <<projects, projLatest>>
    ELSE UNCHANGED dbvars

\* fetchAndStoreProjectData from the result of the fetcher on, and the
\* handler that awaits it
Resolve(fetched, storeOk) ==
    LET result == IF fetched.kind = "null" THEN NullResult
                  ELSE [kind |-> "data",
                        stored |-> IF storeOk THEN "yes" ELSE "no",
                        n |-> fetched.n]
    IN  /\ wPc' = "off"
        /\ wResult' = result
        /\ IF fetched.kind = "null" THEN UNCHANGED dbvars
           ELSE storeAnalyticsDataToDB(wToken, wRun, fetched.n, storeOk)
        /\ IF wMode = "awaited"
           THEN /\ hPc' = "done"
                /\ hResp' = IF result.kind = "null" THEN NoDataResp
                            ELSE [result EXCEPT !.kind = "fetched"]
           ELSE UNCHANGED <<hPc, hResp>>
        /\ UNCHANGED <<hDb, wMode, wToken>>

StartWorker(token, mode) ==
    /\ wPc' = "project"
    /\ wMode' = mode
    /\ wToken' = token
    /\ wRun' = 0
    /\ wReqs' = <<request(projectUrl(token), "none")>>
    /\ wResult' = [NullResult EXCEPT !.kind = "pending"]

NoWorker ==
    /\ wPc' = "off"
    /\ wReqs' = <<>>
    /\ wResult' = NoResp
    /\ UNCHANGED <<wMode, wToken, wRun>>

\* Step 1 has not run
NotLooked == [looked |-> FALSE, found |-> FALSE, n |-> 0]

\* getAnalyticsDataFromDB: the stored result, null when nothing is stored or
\* the lookup failed
getAnalyticsDataFromDB(token, dbOk) ==
    IF dbOk
    THEN [looked |-> TRUE, found |-> getAnalyticsData(token).found,
          n |-> getAnalyticsData(token).n]
    ELSE [looked |-> TRUE, found |-> FALSE, n |-> 0]

\* a handler that waits for the refresh it was forced to make
step1_awaitRefresh(db, force) ==
    IF db.found /\ ~force THEN "respond" ELSE "step2"

\* what the handler does with the result of Step 1: with records it
\* responds (and starts a refresh when forced); with a result without
\* records it skips Step 2 and responds with that result; with null it
\* goes to Step 2
step1(db, force) ==
    IF db.found /\ db.n > 0
    THEN IF force THEN "respond, refresh" ELSE "respond"
    ELSE IF db.found THEN "respond"
    ELSE "step2"

\* the handler up to its first await on the network (one request at a time:
\* the next one is taken once the fetch of the previous one has ended)
GETAnalytics(token, force, dbOk) ==
    /\ hPc \in {"idle", "done"}
    /\ wPc = "off"
    /\ UNCHANGED latevars
    /\ UNCHANGED restvars
    /\ UNCHANGED <<csvvars, trvars, upRuns, rdReq, rdResp, dbvars>>
    /\ IF token = NoToken
       THEN /\ hPc' = "done"
            /\ hDb' = NotLooked
            /\ hResp' = [NoResp EXCEPT !.kind = "400"]
            /\ NoWorker
       ELSE LET db == getAnalyticsDataFromDB(token, dbOk)
                step == step1(db, force)
            IN  /\ hDb' = db
                /\ IF step = "step2"
                   THEN /\ hPc' = "step2"
                        /\ hResp' = NoResp
                        /\ StartWorker(token, "awaited")
                   ELSE /\ hPc' = "done"
                        /\ hResp' = [kind |-> "db", stored |-> "na",
                                     n |-> db.n]
                        /\ IF step = "respond, refresh"
                           THEN StartWorker(token, "background")
                           ELSE NoWorker

\* the answer to GET /projects/{token}
WorkerProject(outcome, storeOk) ==
    /\ wPc = "project"
    /\ UNCHANGED latevars
    /\ UNCHANGED restvars
    /\ UNCHANGED <<csvvars, trvars, upRuns, rdReq, rdResp>>
    /\ wReqs' = IF outcome = "ok" /\ LastRunOf(wToken) # 0
                THEN Append(Answered(wReqs, outcome),
                            request(runDataUrl(LastRunOf(wToken)), "csv"))
                ELSE Answered(wReqs, outcome)
    /\ IF outcome = "ok" /\ LastRunOf(wToken) # 0
       THEN /\ wPc' = "csv"
            /\ wRun' = LastRunOf(wToken)
            /\ UNCHANGED <<hPc, hDb, hResp, wMode, wToken, wResult, dbvars>>
       ELSE /\ Resolve(IF outcome = "ok" THEN NullResult
                       ELSE fetchFailed(outcome), storeOk)
            /\ UNCHANGED wRun

\* the answer to GET /runs/{run_token}/data?format=csv
WorkerCsv(outcome, storeOk) ==
    /\ wPc = "csv"
    /\ outcome \in {"ok", "badtext"} => DataAvailable(wRun)
    /\ outcome = "404" => ~DataAvailable(wRun)
    /\ UNCHANGED latevars
    /\ UNCHANGED restvars
    /\ UNCHANGED <<csvvars, trvars, upRuns, rdReq, rdResp, wRun>>
    /\ IF outcome = "ok"
       THEN /\ wReqs' = Answered(wReqs, outcome)
            /\ Resolve([kind |-> "data", stored |-> "na",
                         n |-> Len(parseCSV(PayloadCsv[upRuns[wRun].payload]))],
                       storeOk)
       ELSE IF csvFallback(outcome) = "json"
       THEN /\ wReqs' = Append(Answered(wReqs, outcome),
                               request(runDataUrl(wRun), "json"))
            /\ wPc' = "json"
            /\ UNCHANGED <<hPc, hDb, hResp, wMode, wToken, wResult, dbvars>>
       ELSE /\ wReqs' = Answered(wReqs, outcome)
            /\ Resolve(fetchFailed(outcome), storeOk)

\* the answer to GET /runs/{run_token}/data (JSON)
WorkerJson(outcome, storeOk) ==
    /\ wPc = "json"
    /\ outcome = "ok" => DataAvailable(wRun)
    /\ outcome = "404" => ~DataAvailable(wRun)
    /\ UNCHANGED latevars
    /\ UNCHANGED restvars
    /\ UNCHANGED <<csvvars, trvars, upRuns, rdReq, rdResp, wRun>>
    /\ wReqs' = Answered(wReqs, outcome)
    /\ Resolve(IF outcome = "ok"
               THEN [kind |-> "data", stored |-> "na",
                     n |-> jsonRecords(PayloadJson[upRuns[wRun].payload])]
               ELSE fetchFailed(outcome), storeOk)

\* Step 2: the 12 second timer of Promise.race fires while the fetch still
\* waits for the platform; the fetch goes on without a waiting handler
AnalyticsTimeout ==
    /\ hPc = "step2"
    /\ wPc # "off"
    /\ wMode = "awaited"
    /\ hPc' = "done"
    /\ hResp' = NoDataResp
    /\ wMode' = "abandoned"
    /\ UNCHANGED latevars
    /\ UNCHANGED restvars
    /\ UNCHANGED <<csvvars, upvars, dbvars, trvars, hDb, wPc, wToken,
                   wRun, wReqs, wResult, rdReq, rdResp>>

\* GET /api/projects/[token]/[runToken], called for a run of the project:
\* the platform has nothing at the address it is asked for, the handler
\* answers 500
RunDataGET(token, runToken) ==
    /\ runToken \in 1..Len(upRuns)
    /\ upRuns[runToken].project = token
    /\ rdReq' = request(projectRunDataUrl(token, runToken), "json")
    /\ rdResp' = "500"
    /\ UNCHANGED latevars
    /\ UNCHANGED restvars
    /\ UNCHANGED <<csvvars, upRuns, dbvars, trvars, hPc, hDb, hResp,
                   wPc, wMode, wToken, wRun, wReqs, wResult>>

InitAnalytics ==
    /\ hPc = "idle"
    /\ hDb = NotLooked
    /\ hResp = NoResp
    /\ wPc = "off"
    /\ wMode = "awaited"
    /\ wToken = NoToken
    /\ wRun = 0
    /\ wReqs = <<>>
    /\ wResult = NoResp
    /\ rdReq = request(NoUrl, "none")
    /\ rdResp = "none"

\* a run is started on the platform
TriggerRun(p) ==
    /\ Len(upRuns) < MaxRuns
    /\ upRuns' = UpstreamNewRun(p)
    /\ UNCHANGED latevars
    /\ UNCHANGED restvars
    /\ UNCHANGED <<csvvars, anvars, dbvars, trvars>>

(***************************************************************************)
(* The trigger endpoints and active_runs.json.                             *)
(***************************************************************************)
MaxTriggers == 2

\* GET /projects on the platform: the project list, in its order
ProjectList == <<"p1", "p2">>

\* saveRunToken: add or update the entry of the project
saveRunToken(file, token, runToken) ==
    LET old == IF file.exists THEN file.runs ELSE <<>>
        existing == {i \in 1..Len(old) : old[i].token = token}
    IN  [exists |-> TRUE,
         runs |-> IF existing # {}
                  THEN LET existingIndex ==
                              CHOOSE i \in existing : \A k \in existing : i <= k
                       IN  [old EXCEPT ![existingIndex].run_token = runToken]
                  ELSE Append(old, [token |-> token, run_token |-> runToken])]

\* saveRunTokens: the file is written anew from the results that have a
\* run token
saveRunTokens(runsList) ==
    [exists |-> TRUE,
     runs |-> [i \in 1..Len(SelectSeq(runsList, LAMBDA r : r.run_token # 0)) |->
                 LET run == SelectSeq(runsList, LAMBDA r : r.run_token # 0)[i]
                 IN  [token |-> run.token, run_token |-> run.run_token]]]

InitTrigger ==
    /\ activeRuns = [exists |-> FALSE, runs |-> <<>>]
    /\ trResp = [kind |-> "none", run_token |-> 0]
    /\ raPc = "idle"
    /\ raQueue = <<>>
    /\ raResults = <<>>
    /\ raResp = "none"

\* POST run (single project); writeOk: fs.writeFileSync does not throw
POSTRunProject(token, upOk, writeOk) ==
    /\ upOk => Len(upRuns) < MaxTriggers
    /\ UNCHANGED latevars
    /\ UNCHANGED restvars
    /\ UNCHANGED <<csvvars, anvars, dbvars, raPc, raQueue, raResults, raResp>>
    /\ IF token = NoToken
       THEN /\ trResp' = [kind |-> "400", run_token |-> 0]
            /\ UNCHANGED <<upRuns, activeRuns>>
       ELSE IF ~upOk
       THEN /\ trResp' = [kind |-> "500", run_token |-> 0]
            /\ UNCHANGED <<upRuns, activeRuns>>
       ELSE /\ upRuns' = UpstreamNewRun(token)
            /\ activeRuns' = IF writeOk
                             THEN saveRunToken(activeRuns, token, Len(upRuns) + 1)
                             ELSE activeRuns
            /\ trResp' = [kind |-> "success", run_token |-> Len(upRuns) + 1]

\* POST run-all up to its first trigger: the project list is fetched
RunAllStart(listOk) ==
    /\ raPc = "idle"
    /\ UNCHANGED latevars
    /\ UNCHANGED restvars
    /\ UNCHANGED <<csvvars, upvars, anvars, dbvars, activeRuns, trResp>>
    /\ IF listOk
       THEN /\ raPc' = "loop"
            /\ raQueue' = ProjectList
            /\ raResults' = <<>>
            /\ raResp' = "none"
       ELSE /\ raResp' = "500"
            /\ raResults' = <<>>
            /\ UNCHANGED <<raPc, raQueue>>

\* a loop that a failed trigger ends
afterTriggerError_abort(queue) == <<>>

\* the catch inside the loop body pushes an 'error' entry and the for loop
\* goes on with the next project
afterTriggerError(queue) == Tail(queue)

\* POST run-all: one pass of the loop, the trigger of the next project
RunAllTrigger(upOk) ==
    /\ raPc = "loop"
    /\ raQueue # <<>>
    /\ upOk => Len(upRuns) < MaxTriggers
    /\ UNCHANGED latevars
    /\ UNCHANGED restvars
    /\ UNCHANGED <<csvvars, anvars, dbvars, activeRuns, trResp, raPc, raResp>>
    /\ raQueue' = IF upOk THEN Tail(raQueue) ELSE afterTriggerError(raQueue)
    /\ IF upOk
       THEN /\ upRuns' = UpstreamNewRun(Head(raQueue))
            /\ raResults' = Append(raResults,
                    [token |-> Head(raQueue), run_token |-> Len(upRuns) + 1,
                     status |-> "started"])
       ELSE /\ raResults' = Append(raResults,
                    [token |-> Head(raQueue), run_token |-> 0,
                     status |-> "error"])
            /\ UNCHANGED upRuns

\* POST run-all after the loop: the run tokens are saved, the response sent
RunAllFinish(writeOk) ==
    /\ raPc = "loop"
    /\ raQueue = <<>>
    /\ raPc' = "idle"
    /\ raResp' = "success"
    /\ activeRuns' = IF writeOk THEN saveRunTokens(raResults) ELSE activeRuns
    /\ UNCHANGED latevars
    /\ UNCHANGED restvars
    /\ UNCHANGED <<csvvars, upvars, anvars, dbvars, trResp, raQueue, raResults>>

(***************************************************************************)
(* The Record Normalizer for nested objects.  A nested object is a         *)
(* sequence of <<key, value>> pairs in insertion order; a value is an      *)
(* array of a given length or a scalar (a string of a given length).  A    *)
(* record is named by the field it is an element of and its index there;   *)
(* the whole object, taken as one record, is wholeObject.                  *)
(***************************************************************************)
MaxFields == 2
MaxItems == 2

Scalar(n) == [kind |-> "scalar", len |-> n]
Array(n) == [kind |-> "array", len |-> n]

wholeObject == [field |-> "", index |-> 0]

\* the elements of an array-valued field, in order
elements(kv) == [i \in 1..kv[2].len |-> [field |-> kv[1], index |-> i]]

\* the positions of the array-valued fields of an object
arrayFields(obj) == {i \in 1..Len(obj) : obj[i][2].kind = "array"}

firstOf(S) == CHOOSE i \in S : \A k \in S : i <= k

\* analytics route, JSON fallback: records
jsonRecordList(runData) ==
    LET ks == jsonDataKeys(runData)
    IN  IF arrayFields(ks) = {} THEN <<>>
        ELSE elements(ks[firstOf(arrayFields(ks))])

\* getProjectData: the key names it looks for, in this order
fileDataKeys == <<"product", "data", "items", "results", "records">>

\* getProjectData: records of a data file holding an object
getProjectDataRecords(fileData) ==
    LET found == {k \in 1..Len(fileDataKeys) :
                    /\ hasKey(fileData, fileDataKeys[k])
                    /\ getField(fileData, fileDataKeys[k]).kind = "array"}
        key == fileDataKeys[firstOf(found)]
        records == IF found = {} THEN <<>>
                   ELSE elements(<<key, getField(fileData, key)>>)
    IN  IF Len(records) = 0 /\ Len(objectKeys(fileData)) > 0
        THEN <<wholeObject>>
        ELSE records

\* export route: dataToConvert, and the single object wrapped by
\* convertJsonToCsv
exportDataToConvert(jsonData) ==
    IF arrayFields(jsonData) = {} THEN <<wholeObject>>
    ELSE elements(jsonData[firstOf(arrayFields(jsonData))])

JsonKeys == {"offset", "brand", "product", "items", "name"}
JsonValues == {Scalar(n) : n \in 0..1} \cup {Array(n) : n \in 0..MaxItems}

\* objects of up to MaxFields fields with distinct keys
JsonObjects ==
    {obj \in UNION {[1..k -> JsonKeys \X JsonValues] : k \in 0..MaxFields} :
        \A i, j \in 1..Len(obj) : i # j => obj[i][1] # obj[j][1]}

JsonRoutes == {"analytics", "file", "export"}

InitJSONIdle ==
    /\ jsPc = JsonRoutes
    /\ jsData = <<>>
    /\ jsAnalytics = <<>>
    /\ jsFile = <<>>
    /\ jsExport = <<>>

InitJSONInput ==
    /\ jsPc = {}
    /\ jsData \in JsonObjects
    /\ jsAnalytics = <<>>
    /\ jsFile = <<>>
    /\ jsExport = <<>>

\* analytics route: the JSON payload of a run is normalized
JsonFallback ==
    /\ "analytics" \notin jsPc
    /\ jsAnalytics' = jsonRecordList(jsData)
    /\ jsPc' = jsPc \cup {"analytics"}
    /\ UNCHANGED <<jsData, jsFile, jsExport>>
    /\ UNCHANGED latevars
    /\ UNCHANGED <<pollvars, scanvars, uivars>>
    /\ UNCHANGED <<csvvars, upvars, anvars, dbvars, trvars>>

\* project data route: the data file of a project is read
GetProjectData ==
    /\ "file" \notin jsPc
    /\ jsFile' = getProjectDataRecords(jsData)
    /\ jsPc' = jsPc \cup {"file"}
    /\ UNCHANGED <<jsData, jsAnalytics, jsExport>>
    /\ UNCHANGED latevars
    /\ UNCHANGED <<pollvars, scanvars, uivars>>
    /\ UNCHANGED <<csvvars, upvars, anvars, dbvars, trvars>>

\* export route: the data file of a project is flattened for the CSV
ExportFlatten ==
    /\ "export" \notin jsPc
    /\ jsExport' = exportDataToConvert(jsData)
    /\ jsPc' = jsPc \cup {"export"}
    /\ UNCHANGED <<jsData, jsAnalytics, jsFile>>
    /\ UNCHANGED latevars
    /\ UNCHANGED <<pollvars, scanvars, uivars>>
    /\ UNCHANGED <<csvvars, upvars, anvars, dbvars, trvars>>

(***************************************************************************)
(* The Run Poller with the Data Fetcher it hands over to, the status       *)
(* observations it writes to the Durable Store, and the cancellation of a  *)
(* run (the route POST /api/runs/[run_token]/cancel and the backend it     *)
(* proxies to).  One loop owns one run; its observations travel to the     *)
(* store on their own and may arrive in any order.                         *)
(***************************************************************************)
MaxTicks == 2

NoRun == 0

Observation(seq, status) == [seq |-> seq, status |-> status]
PollEvent(status) == [ev |-> "poll", status |-> status]
FetchEvent == [ev |-> "fetch", status |-> "complete"]
SkipEvent == [ev |-> "skip", status |-> "none"]

Terminal == {"complete", "error", "cancelled"}

RunStatus(r) == runs[CHOOSE i \in RunRows(r) : TRUE].status

\* a poller that waits for a later tick before it fetches
afterObservation_nextTick(status) ==
    IF status \in {"error", "cancelled"} THEN "stopped" ELSE "poll"

\* where the loop goes after an observation
afterObservation(status) ==
    IF status = "complete" THEN "fetch"
    ELSE IF status \in {"error", "cancelled"} THEN "stopped"
    ELSE "poll"

\* a store that applies whatever arrives
acceptObservation_always(stored, seq) == TRUE

\* the store ignores an observation older than the one it holds
acceptObservation(stored, seq) == seq > stored

\* a cancellation that gives up when the platform refuses
cancelLocally_ifUpstream(upOk) == upOk

\* the loop is stopped whatever the platform answered
cancelLocally(upOk) == TRUE

runRow(r, status) ==
    [run_token |-> r, project_token |-> upRuns[r].project, status |-> status,
     records_count |-> 0, captured |-> FALSE]

InitPollIdle ==
    /\ plPc = "idle"
    /\ plRun = NoRun
    /\ plTick = 0
    /\ plLog = <<>>
    /\ plWrites = {}
    /\ plApplied = <<>>
    /\ runSeq = [r \in RunTokens |-> 0]
    /\ cnResp = "none"
    /\ cnRun = NoRun

\* a triggered run gets its row and its polling loop
PollerStart(r) ==
    /\ plPc = "idle"
    /\ r \in 1..Len(upRuns)
    /\ plPc' = "poll"
    /\ plRun' = r
    /\ runs' = upsertRun(runs, runRow(r, "queued"))
    /\ runLatest' = [runLatest EXCEPT ![r] = Inserted(@, "queued")]
    /\ UNCHANGED <<plTick, plLog, plWrites, plApplied, runSeq, cnResp, cnRun>>
    /\ UNCHANGED <<projects, recordRows, projLatest>>
    /\ UNCHANGED latevars
    /\ UNCHANGED <<jsvars, scanvars, uivars, csvvars, upvars, anvars, trvars>>

\* one tick of the loop: the status is asked for; a tick whose retries are
\* used up is skipped
PollTick(outcome) ==
    /\ plPc = "poll"
    /\ plTick < MaxTicks
    /\ plTick' = plTick + 1
    /\ IF outcome = "ok"
       THEN LET status == upRuns[plRun].status
            IN  /\ plWrites' = plWrites \cup {Observation(plTick + 1, status)}
                /\ plPc' = afterObservation(status)
                /\ plLog' = IF afterObservation(status) = "fetch"
                            THEN plLog \o <<PollEvent(status), FetchEvent>>
                            ELSE Append(plLog, PollEvent(status))
       ELSE /\ plLog' = Append(plLog, SkipEvent)
            /\ UNCHANGED <<plPc, plWrites>>
    /\ UNCHANGED <<plRun, plApplied, runSeq, cnResp, cnRun>>
    /\ UNCHANGED latevars
    /\ UNCHANGED <<jsvars, scanvars, uivars, csvvars, upvars, anvars, dbvars,
                   trvars>>

\* the time budget is used up: the run is left as it was last seen
PollBudget ==
    /\ plPc = "poll"
    /\ plTick = MaxTicks
    /\ plPc' = "stopped"
    /\ UNCHANGED <<plRun, plTick, plLog, plWrites, plApplied, runSeq, cnResp,
                   cnRun>>
    /\ UNCHANGED latevars
    /\ UNCHANGED <<jsvars, scanvars, uivars, csvvars, upvars, anvars, dbvars,
                   trvars>>

\* an observation arrives at the store
ApplyObservation(o) ==
    /\ o \in plWrites
    /\ plWrites' = plWrites \ {o}
    /\ plApplied' = Append(plApplied, o)
    /\ IF acceptObservation(runSeq[plRun], o.seq)
       THEN /\ runs' = upsertRun(runs, runRow(plRun, o.status))
            /\ runLatest' = [runLatest EXCEPT
                               ![plRun] = Inserted(@, o.status)]
            /\ runSeq' = [runSeq EXCEPT ![plRun] = o.seq]
       ELSE UNCHANGED <<runs, runLatest, runSeq>>
    /\ UNCHANGED <<plPc, plRun, plTick, plLog, cnResp, cnRun>>
    /\ UNCHANGED <<projects, recordRows, projLatest>>
    /\ UNCHANGED latevars
    /\ UNCHANGED <<jsvars, scanvars, uivars, csvvars, upvars, anvars, trvars>>

\* the Data Fetcher invoked by the loop comes back; what it fetched is
\* stored in one transaction, under the sequence number of the tick that
\* saw the run complete
PollFetchDone(outcome, storeOk) ==
    /\ plPc = "fetch"
    /\ outcome = "ok" => DataAvailable(plRun)
    /\ outcome = "404" => ~DataAvailable(plRun)
    /\ plPc' = "stopped"
    /\ IF outcome = "ok" /\ storeOk
       THEN LET n == Len(parseCSV(PayloadCsv[upRuns[plRun].payload]))
            IN  /\ runs' = commitCapture(runs,
                              [runRow(plRun, "complete")
                                  EXCEPT !.records_count = n])
                /\ recordRows' = [recordRows EXCEPT ![plRun] = n]
                /\ runLatest' = [runLatest EXCEPT
                                   ![plRun] = Inserted(@, "complete")]
                /\ runSeq' = [runSeq EXCEPT ![plRun] = plTick]
                /\ plApplied' = Append(plApplied,
                                       Observation(plTick, "complete"))
       ELSE UNCHANGED <<runs, recordRows, runLatest, runSeq, plApplied>>
    /\ UNCHANGED <<plRun, plTick, plLog, plWrites, cnResp, cnRun>>
    /\ UNCHANGED <<projects, projLatest>>
    /\ UNCHANGED latevars
    /\ UNCHANGED <<jsvars, scanvars, uivars, csvvars, upvars, anvars, trvars>>

\* POST /api/runs/[run_token]/cancel: the route proxies to the backend,
\* which asks the platform to cancel the run and stops the loop of a run
\* that is still polled
CancelPOST(run_token, reached, upOk) ==
    /\ cnResp = "none"
    /\ UNCHANGED <<plRun, plTick, plLog, plWrites>>
    /\ UNCHANGED <<projects, recordRows, projLatest>>
    /\ UNCHANGED latevars
    /\ UNCHANGED <<jsvars, scanvars, uivars, csvvars, anvars, trvars>>
    /\ IF run_token = NoRun
       THEN /\ cnResp' = "400"
            /\ UNCHANGED <<upvars, plPc, plApplied, runSeq, cnRun, runs,
                           runLatest>>
       ELSE IF ~reached
       THEN /\ cnResp' = "500"
            /\ UNCHANGED <<upvars, plPc, plApplied, runSeq, cnRun, runs,
                           runLatest>>
       ELSE IF ~(plRun = run_token /\ plPc = "poll")
       THEN /\ cnResp' = "relayed"
            /\ UNCHANGED <<upvars, plPc, plApplied, runSeq, cnRun, runs,
                           runLatest>>
       ELSE /\ cnResp' = IF upOk THEN "200" ELSE "relayed"
            /\ upRuns' = IF upOk /\ upRuns[run_token].status \in InFlight
                         THEN [upRuns EXCEPT ![run_token].status = "cancelled"]
                         ELSE upRuns
            /\ cnRun' = run_token
            /\ IF cancelLocally(upOk)
               THEN /\ plPc' = "stopped"
                    /\ runs' = upsertRun(runs, runRow(run_token, "cancelled"))
                    /\ runLatest' = [runLatest EXCEPT
                                       ![run_token] = Inserted(@, "cancelled")]
                    /\ runSeq' = [runSeq EXCEPT ![run_token] = plTick + 1]
                    /\ plApplied' = Append(plApplied,
                                      Observation(plTick + 1, "cancelled"))
               ELSE UNCHANGED <<plPc, runs, runLatest, runSeq, plApplied>>

(***************************************************************************)
(* The Recovery Scanner: a sweep over the historical runs of a project,    *)
(* newest first.  A historical run has retrievable data on the platform or *)
(* not (data), and is already captured in the store or not (present).      *)
(***************************************************************************)
MaxHistory == 3

Histories ==
    UNION {[1..n -> [data : BOOLEAN, present : BOOLEAN]] : n \in 0..MaxHistory}

ScanOutcomes == {"recovered", "already-present", "purged", "error"}

\* the outcome of one run, from what the Data Fetcher and the store answered
runOutcome(run, fetched, storeOk) ==
    IF fetched = "404" THEN "purged"
    ELSE IF fetched = "error" \/ ~storeOk THEN "error"
    ELSE IF run.present THEN "already-present"
    ELSE "recovered"

\* a scanner that gives up at the first run that fails
scanContinue_stopOnError(outcome) ==
    IF outcome = "error" THEN "failed" ELSE "scan"

\* whatever the outcome of a run, the scan goes on with the next one
scanContinue(outcome) == "scan"

InitScanIdle ==
    /\ scPc = "idle"
    /\ scHist = <<>>
    /\ scOutcome = <<>>

InitScanInput ==
    /\ scPc = "idle"
    /\ scHist \in Histories
    /\ scOutcome = <<>>

\* the runs of the project are enumerated; without the platform the scan
\* fails as a whole
ScanStart(reached) ==
    /\ scPc = "idle"
    /\ scPc' = IF reached THEN "scan" ELSE "failed"
    /\ UNCHANGED <<scHist, scOutcome>>
    /\ UNCHANGED latevars
    /\ UNCHANGED <<jsvars, pollvars, uivars, csvvars, upvars, anvars, dbvars,
                   trvars>>

\* the next run is visited: the Data Fetcher is tried on it
ScanVisit(fetched, storeOk) ==
    /\ scPc = "scan"
    /\ Len(scOutcome) < Len(scHist)
    /\ LET run == scHist[Len(scOutcome) + 1]
           outcome == runOutcome(run, fetched, storeOk)
       IN  /\ fetched = "ok" => run.data
           /\ fetched = "404" => ~run.data
           /\ scOutcome' = Append(scOutcome, outcome)
           /\ scPc' = scanContinue(outcome)
    /\ UNCHANGED scHist
    /\ UNCHANGED latevars
    /\ UNCHANGED <<jsvars, pollvars, uivars, csvvars, upvars, anvars, dbvars,
                   trvars>>

\* no run is left: the report is complete
ScanFinish ==
    /\ scPc = "scan"
    /\ Len(scOutcome) = Len(scHist)
    /\ scPc' = "done"
    /\ UNCHANGED <<scHist, scOutcome>>
    /\ UNCHANGED latevars
    /\ UNCHANGED <<jsvars, pollvars, uivars, csvvars, upvars, anvars, dbvars,
                   trvars>>

(***************************************************************************)
(* The project list of the dashboard: one status badge per project.        *)
(***************************************************************************)
Badge(icon, label, className, spin) ==
    [icon |-> icon, label |-> label, className |-> className, spin |-> spin]

NotRendered == Badge("", "", "", FALSE)
NoBadge == Badge("null", "", "", FALSE)

\* project.last_run?.status: "" for a project without last_run
NoStatus == ""
UiStatuses == Statuses \cup {NoStatus}

statusConfig ==
    [complete |-> [icon |-> "CheckCircle2", label |-> "Completed",
                   className |-> "emerald"],
     running |-> [icon |-> "Loader2", label |-> "Running",
                  className |-> "blue"],
     queued |-> [icon |-> "Clock", label |-> "Queued",
                 className |-> "amber"],
     error |-> [icon |-> "AlertCircle", label |-> "Error",
                className |-> "red"]]

getStatusBadge(status) ==
    IF status = NoStatus THEN NoBadge
    ELSE LET config == IF status \in DOMAIN statusConfig
                       THEN statusConfig[status]
                       ELSE statusConfig.queued
         IN  Badge(config.icon, config.label, config.className,
                   status = "running")

InitBadgeIdle ==
    /\ uiStatus = [p \in Projects |-> NoStatus]
    /\ uiBadge = [p \in Projects |-> NoBadge]

InitBadgeInput ==
    /\ uiStatus \in [Projects -> UiStatuses]
    /\ uiBadge = [p \in Projects |-> NotRendered]

\* the row of a project is rendered
RenderBadge(p) ==
    /\ uiBadge[p] = NotRendered
    /\ uiBadge' = [uiBadge EXCEPT ![p] = getStatusBadge(uiStatus[p])]
    /\ UNCHANGED uiStatus
    /\ UNCHANGED latevars
    /\ UNCHANGED <<jsvars, pollvars, scanvars, csvvars, upvars, anvars, dbvars,
                   trvars>>

(***************************************************************************)
(* Migration 001_pg_unique_constraints.sql: four DO blocks, each guarded   *)
(* by a catalog lookup.  The catalog is the state; the file is executed    *)
(* statement by statement, any number of times.                            *)
(***************************************************************************)
MaxMigrations == 3

\* ALTER TABLE projects / runs resolves in the first schema of the search
\* path; the catalog lookups of the guards are not restricted to a schema
Schemas == {"public", "other"}

Constraint(conname, schema, table) ==
    [conname |-> conname, schema |-> schema, table |-> table]

Column(schema, table, column) ==
    [table_schema |-> schema, table_name |-> table, column_name |-> column]

\* mutant of constraintMissing: the guard is dropped
constraintMissing_always(conname) == TRUE

\* IF NOT EXISTS (SELECT 1 FROM pg_constraint WHERE conname = ...)
constraintMissing(conname) ==
    ~ \E c \in pgConstraints : c.conname = conname

\* IF NOT EXISTS (SELECT 1 FROM information_schema.columns
\*                WHERE table_name = ... AND column_name = ...)
columnMissing(table, column) ==
    ~ \E c \in pgColumns : c.table_name = table /\ c.column_name = column

\* ALTER TABLE t ADD CONSTRAINT n UNIQUE (...): the name is also the name of
\* the index behind it, which must be new in the schema of the table
addConstraint(conname, table) ==
    IF \E c \in pgConstraints : c.conname = conname /\ c.schema = "public"
    THEN [did |-> "error", constraints |-> pgConstraints]
    ELSE [did |-> "added",
          constraints |->
              pgConstraints \cup {Constraint(conname, "public", table)}]

\* ALTER TABLE t ADD COLUMN c ...: an error when t already has column c
addColumn(table, column) ==
    IF Column("public", table, column) \in pgColumns
    THEN [did |-> "error", columns |-> pgColumns]
    ELSE [did |-> "added",
          columns |-> pgColumns \cup {Column("public", table, column)}]

\* one DO block that ensures a UNIQUE constraint
ensureConstraint(conname, table) ==
    IF constraintMissing(conname)
    THEN addConstraint(conname, table)
    ELSE [did |-> "skipped", constraints |-> pgConstraints]

\* one DO block that ensures a column
ensureColumn(table, column) ==
    IF columnMissing(table, column)
    THEN addColumn(table, column)
    ELSE [did |-> "skipped", columns |-> pgColumns]

MigrationEvent(run, block, object, did) ==
    [run |-> run, block |-> block, object |-> object, did |-> did]

Schema == [constraints |-> pgConstraints, columns |-> pgColumns]

NoSchema == [constraints |-> {}, columns |-> {}]

\* the catalogs a deployment may have before the migration is first run
CatalogConstraints ==
    {Constraint(n, sc, IF sc = "public" THEN t ELSE "legacy") :
        n \in {"projects_token_unique"}, sc \in Schemas, t \in {"projects"}}
    \cup {Constraint(n, sc, IF sc = "public" THEN t ELSE "legacy") :
        n \in {"runs_run_token_unique"}, sc \in Schemas, t \in {"runs"}}

CatalogColumns ==
    {Column(sc, t, "updated_at") : sc \in Schemas, t \in {"projects", "runs"}}

InitMigrateIdle ==
    /\ pgConstraints = {}
    /\ pgColumns = {}
    /\ mgPc = 0
    /\ mgRuns = 0
    /\ mgLog = <<>>
    /\ mgFirst = NoSchema

InitMigrateInput ==
    /\ pgConstraints \in SUBSET CatalogConstraints
    /\ pgColumns \in SUBSET CatalogColumns
    /\ mgPc = 0
    /\ mgRuns = 0
    /\ mgLog = <<>>
    /\ mgFirst = NoSchema

(***************************************************************************)
(* GET /api/projects, the proxy to the backend.  The body of the backend's *)
(* answer is an object with the fields by_website and projects; a field is *)
(* absent (or falsy), a truthy value that is no array, or an array.        *)
(***************************************************************************)
MaxGroups == 2
MaxListed == 2

Absent == [kind |-> "absent", len |-> 0]

\* the values of a field that should hold a list of projects
ListValues == {Absent, Scalar(1)} \cup {Array(n) : n \in 0..MaxListed}

\* data.by_website: its kind and, for an array, the projects field of each
\* group
Grouped(kind, groups) == [kind |-> kind, groups |-> groups]

GroupedValues ==
    {Grouped("absent", <<>>), Grouped("scalar", <<>>)}
    \cup {Grouped("array", g) :
            g \in UNION {[1..n -> ListValues] : n \in 0..MaxGroups}}

Body(kind, by_website, list) ==
    [kind |-> kind, by_website |-> by_website, projects |-> list]

\* a body that is not an object: JSON null
NullBody == Body("null", Grouped("absent", <<>>), Absent)

Bodies ==
    {NullBody}
    \cup {Body("object", g, p) : g \in GroupedValues, p \in ListValues}

\* what the await of axios.get ends with: the response, or an error thrown
BackendCall(kind, code, status, data) ==
    [kind |-> kind, code |-> code, status |-> status, data |-> data]

\* an axios error has a code and, when the backend answered, a status
AxiosErrors ==
    {BackendCall("axios", e[1], e[2], NullBody) :
        e \in {<<"ECONNREFUSED", 0>>, <<"ECONNABORTED", 0>>,
               <<"ENOTFOUND", 0>>, <<"ECONNRESET", 0>>,
               <<"ERR_BAD_REQUEST", 401>>, <<"ERR_BAD_REQUEST", 404>>,
               <<"ERR_BAD_RESPONSE", 500>>}}

BackendCalls ==
    AxiosErrors \cup {BackendCall("ok", "", 200, b) : b \in Bodies}

NoCall == BackendCall("none", "", 0, NullBody)

ProjectsResponse(status, list, groups) ==
    [returned |-> TRUE, status |-> status, projects |-> list,
     groups |-> groups]

\* the function ends without a return statement
NoReturn ==
    [returned |-> FALSE, status |-> 0, projects |-> <<>>, groups |-> 0]

\* the projects of the groups from position g on, flattened in order
RECURSIVE flattenGroups(_, _)
flattenGroups(groups, g) ==
    IF g > Len(groups) THEN <<>>
    ELSE (IF groups[g].kind = "array"
          THEN [i \in 1..groups[g].len |-> [group |-> g, index |-> i]]
          ELSE <<>>) \o flattenGroups(groups, g + 1)

\* the try block after the await
projectsOf(data) ==
    IF data.by_website.kind = "array"
    THEN flattenGroups(data.by_website.groups, 1)
    ELSE IF data.projects.kind = "array"
    THEN [i \in 1..data.projects.len |-> [group |-> 0, index |-> i]]
    ELSE <<>>

groupsOf(data) ==
    IF data.by_website.kind = "array" THEN Len(data.by_website.groups)
    ELSE 0

\* the catch block: three kinds of axios error have a return statement
catchProjects(isAxiosError, code, status) ==
    IF isAxiosError /\ code = "ECONNREFUSED"
    THEN ProjectsResponse(503, <<>>, 0)
    ELSE IF isAxiosError /\ status = 401
    THEN ProjectsResponse(401, <<>>, 0)
    ELSE IF isAxiosError /\ code = "ECONNABORTED"
    THEN ProjectsResponse(504, <<>>, 0)
    ELSE NoReturn

\* GET: Object.keys(data) throws a TypeError when data is null
getProjects(call) ==
    IF call.kind = "axios"
    THEN catchProjects(TRUE, call.code, call.status)
    ELSE IF call.data.kind = "null"
    THEN catchProjects(FALSE, "", 0)
    ELSE ProjectsResponse(200, projectsOf(call.data), groupsOf(call.data))

InitProjectsIdle ==
    /\ pjPc = "idle"
    /\ pjCall = NoCall
    /\ pjResp = NoReturn

\* GET /api/projects, the whole handler
GETProjects(call) ==
    /\ pjPc' = "done"
    /\ pjCall' = call
    /\ pjResp' = getProjects(call)
    /\ UNCHANGED mgvars
    /\ UNCHANGED <<csvvars, upvars, anvars, dbvars, trvars, restvars>>

InitLate == InitMigrateIdle /\ InitProjectsIdle

\* the file is handed to the server once more
MigrateStart ==
    /\ mgPc = 0
    /\ mgRuns < MaxMigrations
    /\ mgPc' = 1
    /\ UNCHANGED <<pgConstraints, pgColumns, mgRuns, mgLog, mgFirst>>
    /\ UNCHANGED pjvars
    /\ UNCHANGED <<csvvars, upvars, anvars, dbvars, trvars, restvars>>

\* block 1: projects.token UNIQUE
Block1 ==
    /\ mgPc = 1
    /\ LET r == ensureConstraint("projects_token_unique", "projects")
       IN  /\ pgConstraints' = r.constraints
           /\ mgLog' = Append(mgLog, MigrationEvent(mgRuns + 1, 1,
                                  "projects_token_unique", r.did))
    /\ mgPc' = 2
    /\ UNCHANGED <<pgColumns, mgRuns, mgFirst>>
    /\ UNCHANGED pjvars
    /\ UNCHANGED <<csvvars, upvars, anvars, dbvars, trvars, restvars>>

\* block 2: runs.run_token UNIQUE
Block2 ==
    /\ mgPc = 2
    /\ LET r == ensureConstraint("runs_run_token_unique", "runs")
       IN  /\ pgConstraints' = r.constraints
           /\ mgLog' = Append(mgLog, MigrationEvent(mgRuns + 1, 2,
                                  "runs_run_token_unique", r.did))
    /\ mgPc' = 3
    /\ UNCHANGED <<pgColumns, mgRuns, mgFirst>>
    /\ UNCHANGED pjvars
    /\ UNCHANGED <<csvvars, upvars, anvars, dbvars, trvars, restvars>>

\* block 3: runs.updated_at
Block3 ==
    /\ mgPc = 3
    /\ LET r == ensureColumn("runs", "updated_at")
       IN  /\ pgColumns' = r.columns
           /\ mgLog' = Append(mgLog, MigrationEvent(mgRuns + 1, 3,
                                  "runs.updated_at", r.did))
    /\ mgPc' = 4
    /\ UNCHANGED <<pgConstraints, mgRuns, mgFirst>>
    /\ UNCHANGED pjvars
    /\ UNCHANGED <<csvvars, upvars, anvars, dbvars, trvars, restvars>>

\* block 4: projects.updated_at; the end of the file
Block4 ==
    /\ mgPc = 4
    /\ LET r == ensureColumn("projects", "updated_at")
       IN  /\ pgColumns' = r.columns
           /\ mgLog' = Append(mgLog, MigrationEvent(mgRuns + 1, 4,
                                  "projects.updated_at", r.did))
           /\ mgFirst' = IF mgRuns = 0
                         THEN [constraints |-> pgConstraints,
                               columns |-> r.columns]
                         ELSE mgFirst
    /\ mgPc' = 0
    /\ mgRuns' = mgRuns + 1
    /\ UNCHANGED pgConstraints
    /\ UNCHANGED pjvars
    /\ UNCHANGED <<csvvars, upvars, anvars, dbvars, trvars, restvars>>

InitRest == InitJSONIdle /\ InitPollIdle /\ InitScanIdle /\ InitBadgeIdle

InitCSVIdle ==
    /\ csvPc = "parsed"
    /\ exportData = <<>>
    /\ csvText = <<>>
    /\ csvRecords = <<>>

InitBase == InitUp /\ InitAnalytics /\ InitDb /\ InitTrigger

Init == InitCSVIdle /\ InitBase /\ InitRest /\ InitLate

Next ==
    \/ \E p \in Projects : TriggerRun(p)
    \/ \E r \in RunTokens : UpstreamAdvance(r)
    \/ \E r \in RunTokens : UpstreamPurge(r)
    \/ \E token \in Projects \cup {NoToken}, force, dbOk \in BOOLEAN :
          GETAnalytics(token, force, dbOk)
    \/ \E outcome \in {"ok", "error", "rejected"}, storeOk \in BOOLEAN :
          WorkerProject(outcome, storeOk)
    \/ \E outcome \in {"ok", "badtext"} \cup Failures, storeOk \in BOOLEAN :
          WorkerCsv(outcome, storeOk)
    \/ \E outcome \in {"ok"} \cup Failures, storeOk \in BOOLEAN :
          WorkerJson(outcome, storeOk)
    \/ AnalyticsTimeout
    \/ \E token \in Projects, runToken \in RunTokens :
          RunDataGET(token, runToken)

Spec == Init /\ [][Next]_vars

NextTrigger ==
    \/ \E token \in Projects \cup {NoToken}, upOk, writeOk \in BOOLEAN :
          POSTRunProject(token, upOk, writeOk)
    \/ \E listOk \in BOOLEAN : RunAllStart(listOk)
    \/ \E upOk \in BOOLEAN : RunAllTrigger(upOk)
    \/ \E writeOk \in BOOLEAN : RunAllFinish(writeOk)
    \/ \E r \in 1..MaxTriggers : UpstreamAdvance(r)

SpecTrigger == Init /\ [][NextTrigger]_vars

NextStore ==
    \/ \E token \in Projects, title \in Titles : SyncProject(token, title)
    \/ \E runToken \in RunTokens, token \in Projects, status \in Statuses :
          RecordRun(runToken, token, status)

SpecStore == Init /\ [][NextStore]_vars

(***************************************************************************)
(* Inputs of the normalizer.                                               *)
(***************************************************************************)
MaxTextLen == 6
MaxFieldLen == 2

TextAlphabet == {Letter, Letter2, Comma, Quote, Space, NL}
FieldAlphabet == {Letter, Comma, Quote, Space}

SeqsUpTo(S, n) == UNION {[1..k -> S] : k \in 0..n}

Texts == SeqsUpTo(TextAlphabet, MaxTextLen)
FieldValues == SeqsUpTo(FieldAlphabet, MaxFieldLen)

ColA == <<"a">>
ColB == <<"b">>

\* one- and two-row tables with one column, one-row tables with two columns
ExportInputs ==
    {<< <<<<ColA, v>>>> >> : v \in FieldValues}
    \cup {<< <<<<ColA, v>>>>, <<<<ColA, w>>>> >> : v, w \in FieldValues}
    \cup {<< <<<<ColA, v>>, <<ColB, w>>>> >> : v, w \in FieldValues}

InitCSV ==
    /\ InitBase /\ InitRest /\ InitLate
    /\ csvRecords = <<>>
    /\ \/ /\ csvPc = "export"
          /\ exportData \in ExportInputs
          /\ csvText = <<>>
       \/ /\ csvPc = "text"
          /\ exportData = <<>>
          /\ csvText \in Texts

\* export route: the CSV download of a data file
ExportCSV ==
    /\ csvPc = "export"
    /\ csvText' = convertJsonToCsv(exportData)
    /\ csvPc' = "text"
    /\ UNCHANGED latevars
    /\ UNCHANGED restvars
    /\ UNCHANGED <<exportData, csvRecords, upvars, anvars, dbvars, trvars>>

\* analytics route: the CSV payload of a run is normalized
ParseCSV ==
    /\ csvPc = "text"
    /\ csvRecords' = parseCSV(csvText)
    /\ csvPc' = "parsed"
    /\ UNCHANGED latevars
    /\ UNCHANGED restvars
    /\ UNCHANGED <<exportData, csvText, upvars, anvars, dbvars, trvars>>

NextCSV == ExportCSV \/ ParseCSV

SpecCSV == InitCSV /\ [][NextCSV]_vars

InitJSON ==
    /\ InitCSVIdle /\ InitBase /\ InitJSONInput /\ InitLate
    /\ InitPollIdle /\ InitScanIdle /\ InitBadgeIdle

NextJSON == JsonFallback \/ GetProjectData \/ ExportFlatten

SpecJSON == InitJSON /\ [][NextJSON]_vars

NextPoller ==
    \/ \E p \in Projects : TriggerRun(p)
    \/ \E r \in RunTokens : UpstreamAdvance(r)
    \/ \E r \in RunTokens : UpstreamPurge(r)
    \/ \E r \in RunTokens : PollerStart(r)
    \/ \E outcome \in {"ok", "transient"} : PollTick(outcome)
    \/ PollBudget
    \/ \E seq \in 1..MaxTicks, status \in Statuses :
          ApplyObservation(Observation(seq, status))
    \/ \E outcome \in {"ok", "404", "error"}, storeOk \in BOOLEAN :
          PollFetchDone(outcome, storeOk)
    \/ \E run_token \in RunTokens \cup {NoRun}, reached, upOk \in BOOLEAN :
          CancelPOST(run_token, reached, upOk)

SpecPoller == Init /\ [][NextPoller]_vars

InitScan ==
    /\ InitCSVIdle /\ InitBase /\ InitScanInput /\ InitLate
    /\ InitJSONIdle /\ InitPollIdle /\ InitBadgeIdle

NextScan ==
    \/ \E reached \in BOOLEAN : ScanStart(reached)
    \/ \E fetched \in {"ok", "404", "error"}, storeOk \in BOOLEAN :
          ScanVisit(fetched, storeOk)
    \/ ScanFinish

SpecScan == InitScan /\ [][NextScan]_vars

InitBadge ==
    /\ InitCSVIdle /\ InitBase /\ InitBadgeInput /\ InitLate
    /\ InitJSONIdle /\ InitPollIdle /\ InitScanIdle

NextBadge == \E p \in Projects : RenderBadge(p)

SpecBadge == InitBadge /\ [][NextBadge]_vars

InitMigrate ==
    /\ InitCSVIdle /\ InitBase /\ InitRest
    /\ InitMigrateInput /\ InitProjectsIdle

NextMigrate == MigrateStart \/ Block1 \/ Block2 \/ Block3 \/ Block4

SpecMigrate == InitMigrate /\ [][NextMigrate]_vars

NextProjects == \E call \in BackendCalls : GETProjects(call)

SpecProjects == Init /\ [][NextProjects]_vars

(***************************************************************************)
(* Properties of the tabular-text normalizer.                              *)
(***************************************************************************)
\* the table was written by convertJsonToCsv, parsed, and no row was lost
RoundTripped ==
    /\ csvPc = "parsed"
    /\ exportData # <<>>
    /\ Len(csvRecords) = Len(exportData)

CountOf(s, c) == Cardinality({i \in 1..Len(s) : s[i] = c})

\* C8: a comma inside a double-quoted field never splits the field; the
\* record, keyed by the header names, holds the field with its embedded
\* commas and without its surrounding quotes only (here: every value with a
\* comma that the writer quoted is read back unchanged).
C8_QuotedCommaFieldKept ==
    RoundTripped =>
        \A r \in 1..Len(exportData) : \A c \in 1..Len(exportData[r]) :
            LET key == exportData[r][c][1]
                value == exportData[r][c][2]
            IN  Comma \in Range(value) =>
                    /\ key \in DOMAIN csvRecords[r]
                    /\ csvRecords[r][key] = value

\* C9: a doubled double-quote inside a quoted field becomes exactly one
\* literal double-quote in the field value (here: a value the writer quoted
\* and whose quotes it doubled is read back with as many quotes as it had).
C9_DoubledQuoteIsOneQuote ==
    RoundTripped =>
        \A r \in 1..Len(exportData) : \A c \in 1..Len(exportData[r]) :
            LET key == exportData[r][c][1]
                value == exportData[r][c][2]
            IN  Quote \in Range(value) =>
                    /\ key \in DOMAIN csvRecords[r]
                    /\ CountOf(csvRecords[r][key], Quote) = CountOf(value, Quote)

\* the header names of a written table, in column order
ExportHeaders == allKeys(<<>>, exportData)

\* C10 as stated: every data row yields exactly one record, whatever its
\* shape, and every record has every header field (here: a table of n rows
\* written by the export route is read back as n records).
C10_OneRecordPerRow ==
    (csvPc = "parsed" /\ exportData # <<>>) =>
        /\ Len(csvRecords) = Len(exportData)
        /\ \A r \in 1..Len(csvRecords) :
              Range(ExportHeaders) \subseteq DOMAIN csvRecords[r]

\* the lines of the payload as sent, and those that hold a visible character
RawLines == split(csvText, NL)
Visible(line) == \E i \in 1..Len(line) : line[i] \notin Whitespace
VisibleLines == {i \in 1..Len(RawLines) : Visible(RawLines[i])}
HeaderLine == CHOOSE i \in VisibleLines : \A k \in VisibleLines : i <= k
DataLines == IF VisibleLines = {} THEN {}
             ELSE {i \in VisibleLines : i > HeaderLine}
\* the k-th visible data line
NthDataLine(k) ==
    CHOOSE i \in DataLines : Cardinality({m \in DataLines : m <= i}) = k
\* the number of fields of a line: one more than its commas outside quotes
FieldCount(line) ==
    1 + Cardinality({i \in 1..Len(line) :
            /\ line[i] = Comma
            /\ CountOf(SubSeq(line, 1, i), Quote) % 2 = 0})
HeaderNames == parseHeaders(trimStart(RawLines[HeaderLine]))

\* C10 amended: exactly one record for every data line after the header
\* that holds a non-whitespace character (blank lines yield no record), in
\* line order; every record has every header field, and the fields missing
\* from a row shorter than the header are the empty string.
C10_OneRecordPerVisibleLine ==
    csvPc = "parsed" =>
        LET lines == RawLines
            data == DataLines
            headers == HeaderNames
            nth(k) == CHOOSE i \in data :
                         Cardinality({m \in data : m <= i}) = k
        IN  /\ Len(csvRecords) = Cardinality(data)
            /\ \A k \in 1..Len(csvRecords) :
                  /\ DOMAIN csvRecords[k] = Range(headers)
                  /\ \A c \in 1..Len(headers) :
                        c > FieldCount(lines[nth(k)])
                            => csvRecords[k][headers[c]] = <<>>

\* a row shorter than a two-column header was normalized, and a blank line
\* between the header and that row yielded no record
C10_Witness ==
    /\ csvPc = "parsed"
    /\ Len(csvRecords) = 1
    /\ NthDataLine(1) > HeaderLine + 1
    /\ Cardinality(DOMAIN csvRecords[1]) = 2
    /\ FieldCount(RawLines[NthDataLine(1)]) = 1
    /\ \E h \in DOMAIN csvRecords[1] : csvRecords[1][h] # <<>>

(***************************************************************************)
(* Properties of data capture, the store and the trigger endpoints.        *)
(***************************************************************************)
IsRunDataRequest(req) == req.url.leaf = "data"
ByRunTokenAlone(req) == req.url.project = NoToken /\ req.url.run # 0

\* C1: every request for a run's output data addresses it by run token
\* alone, /runs/{run_token}/data, never by project token and run token.
C1_DataAddressedByRunTokenAlone ==
    \A req \in Range(wReqs) \cup {rdReq} :
        IsRunDataRequest(req) => ByRunTokenAlone(req)

\* C2: when the data of a run was fetched and storing it failed, the caller
\* is answered with the explicit storage-failed outcome (fetched data,
\* stored = false), which is neither 'fetched but empty' nor 'no data'.
C2_StorageFailureReported ==
    (wResult.kind = "data" /\ wResult.stored = "no") =>
        (hResp.kind = "fetched" /\ hResp.stored = "no")

BothFormats404(reqs) ==
    /\ Len(reqs) = 3
    /\ reqs[2].format = "csv" /\ reqs[2].outcome = "404"
    /\ reqs[3].format = "json" /\ reqs[3].outcome = "404"

\* C3: a fetch whose CSV request and JSON request both return 404 ends as
\* 'no data': the fetcher returns null instead of throwing, the store is
\* not written, the run is not marked captured, and a waiting caller is
\* answered 'no_data'.
C3_BothNotFoundIsNoData ==
    [][(wPc = "json" /\ wPc' = "off" /\ BothFormats404(wReqs')) =>
            /\ wResult' = NullResult
            /\ runs' = runs
            /\ recordRows' = recordRows
            /\ (wMode = "awaited" => hResp' = NoDataResp)]_vars

\* both formats were answered 404 for a run that is not captured
C3_Witness ==
    /\ wPc = "off"
    /\ BothFormats404(wReqs)
    /\ wResult = NullResult
    /\ ~Captured(wRun)
    /\ hResp = NoDataResp

\* C4: when the CSV request fails, or its payload cannot be parsed, the
\* fetcher requests the JSON format of the same run before it reports
\* anything; it reports failure only after the JSON request failed too.
C4_FallbackBeforeFailure ==
    /\ \A i \in 1..Len(wReqs) :
          (wReqs[i].format = "csv" /\ wReqs[i].outcome \notin {"pending", "ok"})
            => /\ i < Len(wReqs)
               /\ wReqs[i + 1].format = "json"
               /\ wReqs[i + 1].url = wReqs[i].url
    /\ (wResult.kind = "null" /\ \E i \in 1..Len(wReqs) : wReqs[i].format = "csv")
          => \E j \in 1..Len(wReqs) :
                wReqs[j].format = "json" /\ wReqs[j].outcome \in Failures

\* the CSV payload could not be parsed, the JSON request failed, and only
\* then the fetch failed
C4_Witness ==
    /\ wPc = "off"
    /\ Len(wReqs) = 3
    /\ wReqs[2].outcome = "badtext"
    /\ wReqs[3].outcome \in Failures
    /\ wReqs[3].url = runDataUrl(wRun)
    /\ wResult = NullResult

C7_OneRunInFlightPerProject ==
    \A p \in Projects :
        Cardinality({r \in 1..Len(upRuns) :
            upRuns[r].project = p /\ upRuns[r].status \in InFlight}) <= 1

(***************************************************************************)
(* Properties of the nested-object normalizer.                             *)
(***************************************************************************)
HasArrayField == arrayFields(jsData) # {}

\* the elements of the first array-valued top-level field, in key order
FirstArrayElements == elements(jsData[firstOf(arrayFields(jsData))])

\* a scalar field that is not empty
HasNonEmptyScalar ==
    \E i \in 1..Len(jsData) :
        jsData[i][2].kind = "scalar" /\ jsData[i][2].len > 0

RecordsOf(route) ==
    CASE route = "analytics" -> jsAnalytics
      [] route = "file" -> jsFile
      [] route = "export" -> jsExport

\* C11: for a nested object with at least one array-valued top-level field,
\* the record list is exactly the elements of the first such field in key
\* order, whatever its name.
C11_FirstArrayFieldIsRecordList ==
    \A route \in jsPc :
        HasArrayField => RecordsOf(route) = FirstArrayElements

\* C12: for a nested object with no array-valued top-level field, the record
\* list is the whole object as one record if it has a non-empty scalar
\* field, and is empty otherwise.
C12_NoArrayIsOneRecordOrNone ==
    \A route \in jsPc :
        ~HasArrayField =>
            RecordsOf(route) = IF HasNonEmptyScalar THEN <<wholeObject>>
                               ELSE <<>>

(***************************************************************************)
(* Properties of the analytics route towards a rejecting platform.         *)
(***************************************************************************)
RejectedAt(reqs) == {i \in 1..Len(reqs) : reqs[i].outcome = "rejected"}

\* C13: when the platform rejects a call for authentication/authorization
\* reasons, the fetch stops without a further request and reports the
\* rejection as a failure: its result is neither "nothing found" nor data,
\* and the handler that awaits it answers neither "no data" nor data.
C13_RejectionSurfaced ==
    (wPc = "off" /\ RejectedAt(wReqs) # {}) =>
        /\ RejectedAt(wReqs) = {Len(wReqs)}
        /\ wResult.kind \notin {"null", "data"}
        /\ wMode = "awaited" => hResp.kind \notin {"no_data", "fetched"}

(***************************************************************************)
(* Properties of the Run Poller, of the status writes and of cancellation. *)
(***************************************************************************)
PollsOf(S) == {i \in 1..Len(plLog) :
                  plLog[i].ev = "poll" /\ plLog[i].status \in S}
FetchesAt == {i \in 1..Len(plLog) : plLog[i] = FetchEvent}

NewestApplied ==
    plApplied[CHOOSE i \in 1..Len(plApplied) :
                \A k \in 1..Len(plApplied) : plApplied[k].seq <= plApplied[i].seq]

\* C15: whatever the order in which the status observations of a run arrive
\* at the store, the stored status is the one of the arrived observation
\* with the highest sequence number.
C15_NewestObservationWins ==
    plApplied # <<>> =>
        /\ RunStatus(plRun) = NewestApplied.status
        /\ runSeq[plRun] = NewestApplied.seq

\* an observation arrived after a newer one that carries another status
C15_Witness ==
    \E i, j \in 1..Len(plApplied) :
        /\ i < j
        /\ plApplied[i].seq > plApplied[j].seq
        /\ plApplied[i].status # plApplied[j].status

Retrievable == {i \in 1..Len(scHist) : scHist[i].data}
Reported(outcome) == {i \in 1..Len(scOutcome) : scOutcome[i] = outcome}

C18_DistinctBadgePerState ==
    \A p, q \in Projects :
        (/\ uiBadge[p] # NotRendered
         /\ uiBadge[q] # NotRendered
         /\ uiStatus[p] # uiStatus[q]) => uiBadge[p] # uiBadge[q]

(***************************************************************************)
(* Properties of the two steps of GET /api/analytics.                      *)
(***************************************************************************)
\* C19: the database lookup comes before any upstream request, and when it
\* yields at least one record the handler has responded with exactly that
\* result, without waiting for the platform; a forced refresh runs in the
\* background only and leaves the response as it is.
C19_DatabaseResultFirst ==
    /\ wReqs # <<>> => hDb.looked
    /\ (hDb.found /\ hDb.n > 0) =>
          /\ hPc = "done"
          /\ hResp = [kind |-> "db", stored |-> "na", n |-> hDb.n]
          /\ wPc # "off" => wMode = "background"

\* a forced refresh fetched data and ended after the response was sent
C19_Witness ==
    /\ hDb.found /\ hDb.n > 0
    /\ wMode = "background"
    /\ wPc = "off"
    /\ wResult.kind = "data"
    /\ hResp.kind = "db"

\* C20: whenever the lookup yields no records (nothing stored, lookup
\* failed, or a stored result without records), the handler has attempted a
\* fetch from the platform before it answers.
C20_FetchAttemptedWhenNoRecords ==
    (hPc = "done" /\ hDb.looked /\ hDb.n = 0) => wReqs # <<>>

(***************************************************************************)
(* Migration 001                                                           *)
(***************************************************************************)
\* C21: once the migration has been executed, every further execution
\* leaves the schema exactly as the first execution left it and raises no
\* error, and over all executions each constraint and column is added at
\* most once.
C21_MigrationIdempotent ==
    /\ mgRuns >= 1 => Schema = mgFirst
    /\ \A i \in 1..Len(mgLog) :
          mgLog[i].run >= 2 => mgLog[i].did = "skipped"
    /\ \A i, k \in 1..Len(mgLog) :
          (/\ mgLog[i].object = mgLog[k].object
           /\ mgLog[i].did = "added"
           /\ mgLog[k].did = "added") => i = k

\* a catalog that lacked a constraint and a column has been migrated twice,
\* and the first execution did add them
C21_Witness ==
    /\ mgRuns >= 2
    /\ mgPc = 0
    /\ \E i, k \in 1..Len(mgLog) :
          /\ mgLog[i].run = 1 /\ mgLog[i].block = 1 /\ mgLog[i].did = "added"
          /\ mgLog[k].run = 1 /\ mgLog[k].block = 3 /\ mgLog[k].did = "added"

(***************************************************************************)
(* GET /api/analytics: the response and what its request stores            *)
(***************************************************************************)
\* C22: when GET /api/analytics has answered with the empty 'no_data'
\* payload, the fetch-and-store work that request started does not write
\* data for its token to the database: it does not end with a committed
\* store.
C22_NoDataMeansNothingStored ==
    (hPc = "done" /\ hResp = NoDataResp)
        => ~ (/\ wPc = "off"
              /\ wResult.kind = "data"
              /\ wResult.stored = "yes"
              /\ getAnalyticsData(wToken).found)

(***************************************************************************)
(* The trigger endpoints and active_runs.json                              *)
(***************************************************************************)
\* the run token active_runs.json records for a project (0: no entry)
entryOf(file, p) ==
    IF \E i \in 1..Len(file.runs) : file.runs[i].token = p
    THEN file.runs[CHOOSE i \in 1..Len(file.runs) : file.runs[i].token = p]
             .run_token
    ELSE 0

\* C23: POST run-all answers with exactly one result entry per project of
\* the upstream project list, in list order; a failed trigger is an 'error'
\* entry (without run token) and later projects are still triggered; the
\* request fails only when the project list could not be fetched, that is
\* before any trigger.
C23_OneResultPerProject ==
    /\ raResp = "success" =>
          /\ Len(raResults) = Len(ProjectList)
          /\ \A i \in 1..Len(raResults) :
                /\ raResults[i].token = ProjectList[i]
                /\ \/ /\ raResults[i].status = "error"
                      /\ raResults[i].run_token = 0
                   \/ /\ raResults[i].status = "started"
                      /\ raResults[i].run_token \in 1..Len(upRuns)
                      /\ upRuns[raResults[i].run_token].project
                            = ProjectList[i]
    /\ raResp = "500" => raResults = <<>> /\ raPc = "idle"
    /\ raPc = "loop" =>
          Len(raResults) + Len(raQueue) = Len(ProjectList)

\* run-all answered after the trigger of the first project failed and the
\* trigger of the second one succeeded
C23_Witness ==
    /\ raResp = "success"
    /\ Len(raResults) = 2
    /\ raResults[1].status = "error"
    /\ raResults[2].status = "started"

\* C24: whenever the single-project trigger endpoint responds with success
\* and a run token, active_runs.json as the handler leaves it holds an
\* entry for that project with that run token.
C24_SuccessMeansRecorded ==
    [][(trResp' # trResp /\ trResp'.kind = "success")
          => entryOf(activeRuns', upRuns'[trResp'.run_token].project)
                = trResp'.run_token]_vars

\* C25: after any sequence of completed single-project and run-all
\* triggers, active_runs.json holds at most one entry per project token,
\* and that entry carries the run token of the most recent successful
\* trigger of the project.
C25_OneEntryLatestRun ==
    raPc = "idle" =>
        \A p \in Projects :
            /\ Cardinality({i \in 1..Len(activeRuns.runs) :
                                activeRuns.runs[i].token = p}) <= 1
            /\ entryOf(activeRuns, p) # 0
                  => entryOf(activeRuns, p) = LastRunOf(p)

\* C26: a step that records a newly triggered run leaves the entries of
\* all other projects as they were: the run token recorded for a project is
\* removed or changed only by a later successful trigger of that project,
\* that is, it only ever changes to a newer run of the same project.
C26_OtherEntriesUntouched ==
    [][\A p \in Projects :
          entryOf(activeRuns', p) # entryOf(activeRuns, p)
              => /\ entryOf(activeRuns', p) > entryOf(activeRuns, p)
                 /\ entryOf(activeRuns', p) \in 1..Len(upRuns')
                 /\ upRuns'[entryOf(activeRuns', p)].project = p]_vars

(***************************************************************************)
(* GET /api/projects                                                       *)
(***************************************************************************)
\* C27: for every kind of failure of the backend call (an error thrown by
\* the call, or an answer the handler cannot read), the handler of
\* GET /api/projects ends by returning an error response with a status
\* code.
C27_ErrorResponseOnEveryFailure ==
    (pjPc = "done" /\ (pjCall.kind = "axios" \/ pjCall.data.kind = "null"))
        => pjResp.returned /\ pjResp.status >= 400

====
